---- MODULE Spec2Model ----
(***************************************************************************)
(* Liora core (src/src/liora-core.js): module registry, alias resolution,  *)
(* permission check, per-user rate limiter and the message pipeline.       *)
(*                                                                         *)
(* Time is kept relative: every pending setTimeout carries the number of   *)
(* ticks left until it is due; Tick lets one unit pass.                    *)
(***************************************************************************)
EXTENDS Integers, Sequences, FiniteSets, TLC

\* ------------------------------------------------------------------ bounds
MaxThreshold == 4   \* largest defaultUserCooldown.messageCount tried
MaxInterval == 2    \* largest defaultUserCooldown.intervalMs tried (ticks)
MaxBlock == 2       \* largest defaultUserCooldown.blockDurationMs tried (ticks)
MaxRuns == 1        \* pipeline runs suspended in a module's middleware at once
MaxArgs == 1        \* most arguments typed after a command
MaxSources == 2     \* most entries of bot.moduleSources

\* ------------------------------------------------------------ small universes
Users == {"u1", "u2"}
Guilds == {"g1"}
Roles == {"r1"}
NoGuild == ""
NoOverride == ""

RangeOf(s) == {s[i] : i \in 1..Len(s)}

EmptyMap == [k \in {} |-> ""]

\* a JavaScript object used as a map: obj[k], undefined when k is no key
Has(obj, k) == k \in DOMAIN obj

\* --------------------------------------------------------- modules on disk
\* A command as a module declares it; mod is the identity of the module
\* object it belongs to, exec is what its execute hook does.
Cmd(mod, name, aliases, argumentNames, permissionLevel, exec) ==
    [mod |-> mod, name |-> name, aliases |-> aliases,
     argumentNames |-> argumentNames, permissionLevel |-> permissionLevel,
     exec |-> exec]

NoCmd == Cmd("", "", <<>>, <<>>, "", "")

\* What require(path) yields for each module directory that exists.
\* commands = <<>> and broken = TRUE stands for an import that throws.
\* The execute hook of a command resolves ("ok"), returns a promise that is
\* rejected ("reject") or raises before it returns one ("throw").
DiskLocal ==
    [a |-> [broken |-> FALSE,
            commands |-> << Cmd("a", "ping", <<"p">>, <<>>, "all", "ok") >>,
            middleware |-> <<>>],
     b |-> [broken |-> FALSE,
            commands |-> << Cmd("b", "kick", <<"k", "p">>, <<"user", "why?">>, "mods", "ok"),
                            Cmd("b", "ping", <<"pg">>, <<>>, "mods", "reject") >>,
            middleware |-> <<"async">>],
     c |-> [broken |-> TRUE, commands |-> <<>>, middleware |-> <<>>],
     e |-> [broken |-> FALSE,
            commands |-> << Cmd("e", "boom", <<"ping">>, <<>>, "all", "throw") >>,
            middleware |-> <<"sync">>]]

\* A second module source, added with addModuleSource, that also holds an "a".
DiskExtra ==
    [a |-> [broken |-> FALSE,
            commands |-> << Cmd("a2", "ping", <<"k">>, <<"user">>, "all", "ok") >>,
            middleware |-> <<>>]]

Disk(dir) == IF dir = "local" THEN DiskLocal ELSE DiskExtra

ModuleNames == {"a", "b", "c", "d", "e"}   \* "d" exists in no module source

Tokens == {"ping", "kick", "p", "k", "pg"}

Groups == {"all", "mods"}

\* ------------------------------------------------------------------- state
VARIABLES
    modules,              \* bot.modules: loaded modules, in key insertion order
    moduleSources,        \* bot.moduleSources
    config,               \* bot.config
    configFile,           \* contents of config.json
    phase,                \* "running", or where a restart stands: "parsed", "login"
    userCooldowns,        \* bot.userCooldowns
    userMessageCounters,  \* bot.userMessageCounters (undefined read as 0)
    timers,               \* pending setTimeout callbacks, in creation order
    runs,                 \* pipeline runs suspended in a module's middleware
    evt,                  \* what the last handler did (observable effects)
    dispatched,           \* per user: messages forwarded to the dispatcher, by age
    inWindow,             \* per user: messages forwarded since the window opened
    unblocked             \* per user: an unblock timer fired since the bot was loaded, no command since

vars == << modules, moduleSources, config, configFile, phase,
           userCooldowns, userMessageCounters, timers, runs, evt,
           dispatched, inWindow, unblocked >>

\* --------------------------------------------------------- module registry
IndexOfModule(mods, name) ==
    IF \E i \in 1..Len(mods) : mods[i].name = name
    THEN CHOOSE i \in 1..Len(mods) : mods[i].name = name
    ELSE 0

\* name in this.modules
IsLoaded(mods, name) == IndexOfModule(mods, name) # 0

LastIndex(S) == CHOOSE i \in S : \A j \in S : j <= i

\* lines 208-211: every alias of every command mapped to the command's name,
\* a later assignment to the same alias overwriting an earlier one
DefaultAliases(commands) ==
    LET Declaring(a) == {i \in 1..Len(commands) : a \in RangeOf(commands[i].aliases)}
        All == UNION {RangeOf(commands[i].aliases) : i \in 1..Len(commands)}
    IN [a \in All |-> commands[LastIndex(Declaring(a))].name]

NewModule(dir, name) ==
    [name |-> name, path |-> dir,
     commands |-> Disk(dir)[name].commands,
     defaultAliases |-> DefaultAliases(Disk(dir)[name].commands),
     middleware |-> Disk(dir)[name].middleware]

\* this.modules[name] = newModule: a new key goes last, an existing key keeps its place
SetModule(mods, m) ==
    IF IsLoaded(mods, m.name)
    THEN [mods EXCEPT ![IndexOfModule(mods, m.name)] = m]
    ELSE Append(mods, m)

\* lines 197-223: the forEach over the module sources, from source i on.
\* The result is the registry and the callback invocations made, in order.
RECURSIVE LoadFromSources(_, _, _, _, _, _)
LoadFromSources(mods, srcs, i, name, found, cbs) ==
    IF i > Len(srcs)
    THEN [modules |-> mods,
          callbacks |-> IF found THEN cbs ELSE Append(cbs, "notfound")]
    ELSE IF ~Has(Disk(srcs[i]), name)
    THEN LoadFromSources(mods, srcs, i + 1, name, found, cbs)
    ELSE IF Disk(srcs[i])[name].broken
    THEN LoadFromSources(mods, srcs, i + 1, name, found, Append(cbs, "importerror"))
    ELSE LoadFromSources(SetModule(mods, NewModule(srcs[i], name)), srcs, i + 1,
                         name, TRUE, Append(cbs, "ok"))

\* the check for a module already loaded is missing
loadModuleAgain(mods, srcs, name) == LoadFromSources(mods, srcs, 1, name, FALSE, <<>>)

\* bot.loadModule
loadModule(mods, srcs, name) ==
    IF ~IsLoaded(mods, name)
    THEN LoadFromSources(mods, srcs, 1, name, FALSE, <<>>)
    ELSE [modules |-> mods, callbacks |-> <<"alreadyloaded">>]

RemoveAt(s, i) == SubSeq(s, 1, i - 1) \o SubSeq(s, i + 1, Len(s))

\* the import cache is cleared but the module stays in bot.modules
unloadModuleKeeps(mods, name) ==
    [modules |-> mods,
     callbacks |-> IF IsLoaded(mods, name) THEN <<"ok">> ELSE <<"notloaded">>]

\* bot.unloadModule
unloadModule(mods, name) ==
    IF IsLoaded(mods, name)
    THEN [modules |-> RemoveAt(mods, IndexOfModule(mods, name)), callbacks |-> <<"ok">>]
    ELSE [modules |-> mods, callbacks |-> <<"notloaded">>]

\* this.config.activeModules.forEach(module => this.loadModule(module, ...))
RECURSIVE LoadAll(_, _, _, _)
LoadAll(mods, srcs, names, i) ==
    IF i > Len(names) THEN mods
    ELSE LoadAll(loadModule(mods, srcs, names[i]).modules, srcs, names, i + 1)

\* -------------------------------------------------------- command resolver
\* line 295: cmdStr = this.modules[name].defaultAliases[cmdStr] || cmdStr, module by module
RECURSIVE ApplyDefaultAliases(_, _, _)
ApplyDefaultAliases(mods, i, cmdStr) ==
    IF i > Len(mods) THEN cmdStr
    ELSE ApplyDefaultAliases(mods, i + 1,
            IF Has(mods[i].defaultAliases, cmdStr)
            THEN mods[i].defaultAliases[cmdStr] ELSE cmdStr)

\* the module aliases are applied to the target of a configured alias as well
CanonicalNameChained(mods, cfg, command) ==
    ApplyDefaultAliases(mods, 1, IF Has(cfg.commandAliases, command)
                                 THEN cfg.commandAliases[command] ELSE command)

\* line 294-295
CanonicalName(mods, cfg, command) ==
    IF Has(cfg.commandAliases, command)
    THEN cfg.commandAliases[command]
    ELSE ApplyDefaultAliases(mods, 1, command)

\* commands.find(cmd => cmd.name === cmdStr)
FindCommand(commands, cmdStr) ==
    LET Hits == {i \in 1..Len(commands) : commands[i].name = cmdStr}
    IN IF Hits = {} THEN NoCmd
       ELSE commands[CHOOSE i \in Hits : \A j \in Hits : i <= j]

\* lines 296-303: the first module, in key order, that has the command
RECURSIVE FirstFound(_, _, _)
FirstFound(mods, i, cmdStr) ==
    IF i > Len(mods) THEN NoCmd
    ELSE IF FindCommand(mods[i].commands, cmdStr) # NoCmd
    THEN FindCommand(mods[i].commands, cmdStr)
    ELSE FirstFound(mods, i + 1, cmdStr)

\* bot.getCommandNamed: the command handed to the callback, NoCmd for callback()
getCommandNamed(mods, cfg, command) ==
    FirstFound(mods, 1, CanonicalName(mods, cfg, command))

\* ------------------------------------------------------- permission engine
\* a member passes when no role override is configured
hasPermissionEmptyRolePasses(cfg, member, user, group, role) ==
    IF user = cfg.owner THEN TRUE
    ELSE IF group = "all" THEN TRUE
    ELSE IF Has(cfg.groups, group) /\ user \in cfg.groups[group] THEN TRUE
    ELSE member.present /\ (role = NoOverride \/ role \in member.roles)

\* member is [present, roles]: present is FALSE for a message outside a server
hasPermission(cfg, member, user, group, role) ==
    IF user = cfg.owner THEN TRUE
    ELSE IF group = "all" THEN TRUE
    ELSE IF Has(cfg.groups, group) /\ user \in cfg.groups[group] THEN TRUE
    ELSE IF member.present /\ role \in member.roles THEN TRUE
    ELSE FALSE

\* ---------------------------------------------------------------- messages
\* kind: "cmd" (prefix, then a command token and nargs arguments), "bare" (the
\* prefix with nothing but white space after it), "text" (no prefix)
Msg(author, isBot, guild, roles, kind, command, nargs) ==
    [author |-> author, bot |-> isBot, guild |-> guild, roles |-> roles,
     kind |-> kind, command |-> command, nargs |-> nargs]

NoMsg == Msg("", FALSE, NoGuild, {}, "", "", 0)

\* msg.member: null outside a server
Member(msg) == [present |-> msg.guild # NoGuild, roles |-> msg.roles]

\* ----------------------------------------------------------------- pipeline
Stage(fn, mod, kind) == [fn |-> fn, mod |-> mod, kind |-> kind]

Core(fn) == Stage(fn, "", "core")

RECURSIVE ModuleStages(_, _)
ModuleStages(mods, i) ==
    IF i > Len(mods) THEN <<>>
    ELSE [k \in 1..Len(mods[i].middleware) |->
              Stage("middleware", mods[i].name, mods[i].middleware[k])]
         \o ModuleStages(mods, i + 1)

\* the middleware of the modules is put after the blocked-user filter
MiddlewareModulesLate(mods) ==
    << Core("checkMessageAuthor"), Core("blockHandler") >> \o ModuleStages(mods, 1)
    \o << Core("commandDetector"), Core("rateLimiter"), Core("commandDispatcher") >>

\* lines 404-411: the middleware array onMessage builds
Middleware(mods) ==
    << Core("checkMessageAuthor") >> \o ModuleStages(mods, 1)
    \o << Core("blockHandler"), Core("commandDetector"),
          Core("rateLimiter"), Core("commandDispatcher") >>

\* line 332
checkMessageAuthor(msg) == ~msg.bot

\* the blocked-user filter lets every message through
blockHandlerAbsent(cfg, msg) == TRUE

\* line 337: next() is called
blockHandler(cfg, msg) == msg.author \notin RangeOf(cfg.blockedUsers)

\* the test for the prefix is missing: every message is taken for a command
commandDetectorForwardsAll(msg) == "next"

\* lines 342-348: "next" when a command was parsed, "throw" when match() gave
\* null for an empty argument string, "drop" without the prefix
commandDetector(msg) ==
    IF msg.kind = "text" THEN "drop"
    ELSE IF msg.kind = "bare" THEN "throw"
    ELSE "next"

\* the increment is lost: the counter is compared as it was read
IncrementLost(counters, u) == counters[u]

\* line 360-361: the counter after ++
Incremented(counters, u) == counters[u] + 1

\* the counter compared before it is incremented (count++ for ++count)
rateLimiterForwardsPostIncrement(cfg, count) == count - 1 < cfg.messageCount

\* line 361: next() is called
rateLimiterForwards(cfg, count) == count < cfg.messageCount

\* the block one message late
rateLimiterBlocksLate(cfg, count) == count = cfg.messageCount + 1

\* line 363: the user is blocked
rateLimiterBlocks(cfg, count) == count = cfg.messageCount

\* What a stage does with the message in the current state. A module's "async"
\* middleware has work to wait for before its next() (wait), or calls next() at once.
StageResult(cfg, counters, stage, msg, wait) ==
    IF stage.fn = "checkMessageAuthor"
    THEN IF checkMessageAuthor(msg) THEN "next" ELSE "drop"
    ELSE IF stage.fn = "middleware"
    THEN IF stage.kind = "sync" THEN "next"
         ELSE IF stage.kind = "async" THEN (IF wait THEN "suspend" ELSE "next")
         ELSE "drop"
    ELSE IF stage.fn = "blockHandler"
    THEN IF blockHandler(cfg, msg) THEN "next" ELSE "drop"
    ELSE IF stage.fn = "commandDetector" THEN commandDetector(msg)
    ELSE IF stage.fn = "rateLimiter"
    THEN IF rateLimiterForwards(cfg, Incremented(counters, msg.author))
         THEN "next" ELSE "drop"
    ELSE "done"

\* koa-compose: stage i runs, and the stage after it runs inside its next().
\* The result is the stages run from i on and how the last of them ended.
RECURSIVE RunStages(_, _, _, _, _, _)
RunStages(cfg, counters, mw, i, msg, wait) ==
    LET res == StageResult(cfg, counters, mw[i], msg, wait)
    IN IF res = "next" /\ i < Len(mw)
       THEN LET rest == RunStages(cfg, counters, mw, i + 1, msg, wait)
            IN [trace |-> << mw[i].fn >> \o rest.trace, stop |-> rest.stop,
                last |-> rest.last]
       ELSE [trace |-> << mw[i].fn >>, stop |-> res, last |-> i]

\* ---------------------------------------------------------------- dispatcher
\* _.endsWith(i, '?') for the argument names of the modules on disk
Optional == {"why?"}

\* line 380: _.filter(cmd.argumentNames, i => !_.endsWith(i, '?')).length
RequiredArgs(cmd) ==
    Cardinality({i \in 1..Len(cmd.argumentNames) : cmd.argumentNames[i] \notin Optional})

\* line 383: bot.config.commandPermissions[c.command] || cmd.permissionLevel
PermissionLevel(cfg, msg, cmd) ==
    IF Has(cfg.commandPermissions, msg.command)
    THEN cfg.commandPermissions[msg.command]
    ELSE cmd.permissionLevel

\* line 384: reading [c.command] of an undefined per-server map throws
RoleOverrideThrows(cfg, msg) ==
    msg.guild # NoGuild /\ ~Has(cfg.serverPermissions, msg.guild)

\* line 384
RoleOverride(cfg, msg) ==
    IF msg.guild # NoGuild /\ Has(cfg.serverPermissions, msg.guild)
          /\ Has(cfg.serverPermissions[msg.guild], msg.command)
    THEN cfg.serverPermissions[msg.guild][msg.command]
    ELSE NoOverride

Outcome(cmd, notices, executed, threw) ==
    [cmd |-> cmd, notices |-> notices, executed |-> executed, threw |-> threw]

NoOutcome == Outcome(NoCmd, <<>>, FALSE, FALSE)

\* the number of arguments is not compared with the required ones
commandDispatcherArgsUnchecked(mods, cfg, msg) ==
    LET cmd == getCommandNamed(mods, cfg, msg.command)
    IN IF cmd = NoCmd THEN NoOutcome
       ELSE IF RoleOverrideThrows(cfg, msg) THEN Outcome(cmd, <<>>, FALSE, TRUE)
       ELSE IF ~hasPermission(cfg, Member(msg), msg.author,
                              PermissionLevel(cfg, msg, cmd), RoleOverride(cfg, msg))
       THEN Outcome(cmd, <<"denied">>, FALSE, FALSE)
       ELSE IF cmd.exec = "reject" THEN Outcome(cmd, <<"error">>, TRUE, FALSE)
       ELSE IF cmd.exec = "throw" THEN Outcome(cmd, <<>>, TRUE, TRUE)
       ELSE Outcome(cmd, <<>>, TRUE, FALSE)

\* lines 377-398: the command found, the notices sent to the channel, whether
\* execute was invoked and whether an exception left the stage
commandDispatcher(mods, cfg, msg) ==
    LET cmd == getCommandNamed(mods, cfg, msg.command)
    IN IF cmd = NoCmd THEN NoOutcome
       ELSE IF msg.nargs < RequiredArgs(cmd) THEN Outcome(cmd, <<"usage">>, FALSE, FALSE)
       ELSE IF RoleOverrideThrows(cfg, msg) THEN Outcome(cmd, <<>>, FALSE, TRUE)
       ELSE IF ~hasPermission(cfg, Member(msg), msg.author,
                              PermissionLevel(cfg, msg, cmd), RoleOverride(cfg, msg))
       THEN Outcome(cmd, <<"denied">>, FALSE, FALSE)
       ELSE IF cmd.exec = "reject" THEN Outcome(cmd, <<"error">>, TRUE, FALSE)
       ELSE IF cmd.exec = "throw" THEN Outcome(cmd, <<>>, TRUE, TRUE)
       ELSE Outcome(cmd, <<>>, TRUE, FALSE)

\* ------------------------------------------------------------------- events
Event(kind, msg, trace, stop, out, name, callbacks, fresh) ==
    [kind |-> kind, msg |-> msg, trace |-> trace, stop |-> stop,
     cmd |-> out.cmd, notices |-> out.notices, executed |-> out.executed,
     threw |-> out.threw, name |-> name, callbacks |-> callbacks,
     afterUnblock |-> fresh, stages |-> <<>>]

Plain(kind) == Event(kind, NoMsg, <<>>, "", NoOutcome, "", <<>>, FALSE)

Reached(e, fn) == e.kind = "msg" /\ fn \in RangeOf(e.trace)

\* ------------------------------------------------------------- rate limiter
Timer(kind, user, ms) == [kind |-> kind, user |-> user, left |-> ms, dur |-> ms]

Zeros(n) == [k \in 1..n |-> 0]

\* lines 352-374 on a message of user u; forwarded says whether the stages
\* after it ran
rateLimiter(u, forwarded) ==
    LET count == Incremented(userMessageCounters, u)
        opens == u \notin userCooldowns
        blocks == rateLimiterBlocks(config, count)
    IN /\ userCooldowns' = userCooldowns \cup {u}
       /\ userMessageCounters' = [userMessageCounters EXCEPT ![u] = count]
       /\ timers' = timers
              \o (IF opens THEN << Timer("window", u, config.intervalMs) >> ELSE <<>>)
              \o (IF blocks THEN << Timer("unblock", u, config.blockDurationMs) >> ELSE <<>>)
       /\ config' = IF blocks
                    THEN [config EXCEPT !.blockedUsers = Append(@, u)]
                    ELSE config
       /\ dispatched' = IF blocks THEN [dispatched EXCEPT ![u] = Zeros(Len(@))]
                        ELSE IF forwarded THEN [dispatched EXCEPT ![u][1] = @ + 1]
                        ELSE dispatched
       /\ inWindow' = [inWindow EXCEPT ![u] =
                          (IF opens THEN 0 ELSE @) + (IF forwarded THEN 1 ELSE 0)]
       /\ unblocked' = [unblocked EXCEPT ![u] = FALSE]

\* ---------------------------------------------------------------- onMessage
\* compose(middleware)(container) from stage `from` on, for a new message
\* (from = 1) or for a run whose module middleware now calls next()
Pipeline(msg, mw, from, wait, others) ==
    LET r == RunStages(config, userMessageCounters, mw, from, msg, wait)
        limited == "rateLimiter" \in RangeOf(r.trace)
        forwarded == "commandDispatcher" \in RangeOf(r.trace)
        out == IF forwarded THEN commandDispatcher(modules, config, msg) ELSE NoOutcome
        notice == IF limited /\ rateLimiterBlocks(config,
                                   Incremented(userMessageCounters, msg.author))
                  THEN <<"ratelimit">> ELSE <<>>
    IN \* past messageCount + 1 every further message of the window is handled alike
       /\ limited => Incremented(userMessageCounters, msg.author) <= config.messageCount + 1
       /\ IF limited
          THEN rateLimiter(msg.author, forwarded)
          ELSE UNCHANGED << userCooldowns, userMessageCounters, timers, config,
                            dispatched, inWindow, unblocked >>
       /\ runs' = IF r.stop = "suspend"
                  THEN Append(others, [msg |-> msg, mw |-> mw, at |-> r.last])
                  ELSE others
       /\ evt' = [Event("msg", msg, r.trace,
                        IF out.threw THEN "throw" ELSE r.stop,
                        [out EXCEPT !.notices = notice \o @], "", <<>>,
                        limited /\ unblocked[msg.author])
                      EXCEPT !.stages = SubSeq(mw, from, r.last)]
       /\ UNCHANGED << modules, moduleSources, configFile, phase >>

\* bot.onMessage
onMessage(msg, wait) ==
    /\ phase = "running"
    /\ wait => Len(runs) < MaxRuns
    /\ Pipeline(msg, Middleware(modules), 1, wait, runs)

\* the run goes on in the chain of the modules loaded now
ResumeRunRebuilt(k, wait) ==
    /\ k \in 1..Len(runs)
    /\ Pipeline(runs[k].msg, Middleware(modules), runs[k].at + 1, wait, RemoveAt(runs, k))

\* the asynchronous work of a module's middleware ends and it calls next()
ResumeRun(k, wait) ==
    /\ k \in 1..Len(runs)
    /\ Pipeline(runs[k].msg, runs[k].mw, runs[k].at + 1, wait, RemoveAt(runs, k))

\* ... or it returns without calling next()
DropRun(k) ==
    /\ k \in 1..Len(runs)
    /\ runs' = RemoveAt(runs, k)
    /\ evt' = Plain("dropped")
    /\ UNCHANGED << modules, moduleSources, config, configFile, phase, userCooldowns,
                    userMessageCounters, timers, dispatched, inWindow, unblocked >>

\* ------------------------------------------------------------------- timers
\* Node runs expired timers by expiry time, those of one duration in the order
\* they were set
MayFire(i) ==
    /\ timers[i].left = 0
    /\ \A j \in 1..(i - 1) : ~(timers[j].left = 0 /\ timers[j].dur = timers[i].dur)

\* _.remove(bot.config.blockedUsers, i => i === id)
Without(s, u) == SelectSeq(s, LAMBDA x : x # u)

\* lines 355-358: the counting window of a user closes
WindowTimeout(i) ==
    /\ i \in 1..Len(timers)
    /\ timers[i].kind = "window"
    /\ MayFire(i)
    /\ userCooldowns' = userCooldowns \ {timers[i].user}
    /\ userMessageCounters' = [userMessageCounters EXCEPT ![timers[i].user] = 0]
    /\ inWindow' = [inWindow EXCEPT ![timers[i].user] = 0]
    /\ timers' = RemoveAt(timers, i)
    /\ evt' = [Plain("window") EXCEPT !.name = timers[i].user]
    /\ UNCHANGED << modules, moduleSources, config, configFile, phase, runs,
                    dispatched, unblocked >>

\* lines 370-372: the block of a user ends
UnblockTimeout(i) ==
    /\ i \in 1..Len(timers)
    /\ timers[i].kind = "unblock"
    /\ MayFire(i)
    /\ config' = [config EXCEPT !.blockedUsers = Without(@, timers[i].user)]
    /\ unblocked' = [unblocked EXCEPT ![timers[i].user] =
                         @ \/ timers[i].user \in RangeOf(config.blockedUsers)]
    /\ timers' = RemoveAt(timers, i)
    /\ evt' = [Plain("unblock") EXCEPT !.name = timers[i].user]
    /\ UNCHANGED << modules, moduleSources, configFile, phase, userCooldowns,
                    userMessageCounters, runs, dispatched, inWindow >>

\* one unit of time passes; a timer that is due fires before more time passes
Tick ==
    /\ \A i \in 1..Len(timers) : timers[i].left > 0
    /\ timers' = [i \in 1..Len(timers) |-> [timers[i] EXCEPT !.left = @ - 1]]
    /\ dispatched' = [u \in Users |->
                         [k \in 1..Len(dispatched[u]) |->
                             IF k = 1 THEN 0 ELSE dispatched[u][k - 1]]]
    /\ evt' = Plain("tick")
    /\ UNCHANGED << modules, moduleSources, config, configFile, phase, userCooldowns,
                    userMessageCounters, runs, inWindow, unblocked >>

\* ------------------------------------------------------ config and restart
\* bot.saveConfig: config.json now holds bot.config
saveConfig ==
    /\ configFile' = config
    /\ evt' = Plain("save")
    /\ UNCHANGED << modules, moduleSources, config, phase, userCooldowns,
                    userMessageCounters, timers, runs, dispatched, inWindow, unblocked >>

\* bot.restart, then bot.load up to the readFile of loadConfig: the modules are
\* gone and bot.config is what JSON.parse made of config.json
load ==
    /\ phase = "running"
    /\ phase' = "parsed"
    /\ modules' = <<>>
    /\ config' = configFile
    /\ evt' = Plain("load")
    /\ unblocked' = [u \in Users |-> FALSE]
    /\ UNCHANGED << moduleSources, configFile, userCooldowns, userMessageCounters,
                    timers, runs, dispatched, inWindow >>

\* lines 170-178 and 425-430: readFile calls back, bot.config is the object
\* read, the active modules are loaded, the client logs in
loadConfigDone ==
    /\ phase = "parsed"
    /\ phase' = "login"
    /\ config' = configFile
    /\ modules' = LoadAll(<<>>, moduleSources, configFile.activeModules, 1)
    /\ evt' = Plain("loaded")
    /\ UNCHANGED << moduleSources, configFile, userCooldowns, userMessageCounters,
                    timers, runs, dispatched, inWindow, unblocked >>

\* lines 438-449: every server gets a role-override map, the config is saved
WithServers(cfg) ==
    [cfg EXCEPT !.serverPermissions =
        [g \in Guilds \cup DOMAIN @ |-> IF g \in DOMAIN @ THEN @[g] ELSE EmptyMap]]

\* bot.onConnect
onConnect ==
    /\ phase = "login"
    /\ phase' = "running"
    /\ config' = WithServers(config)
    /\ configFile' = WithServers(config)
    /\ evt' = Plain("ready")
    /\ UNCHANGED << modules, moduleSources, userCooldowns, userMessageCounters,
                    timers, runs, dispatched, inWindow, unblocked >>

\* --------------------------------------------------- module load and unload
LoadModule(name) ==
    /\ modules' = loadModule(modules, moduleSources, name).modules
    /\ evt' = [Plain("loadModule") EXCEPT
                  !.name = name,
                  !.callbacks = loadModule(modules, moduleSources, name).callbacks]
    /\ UNCHANGED << moduleSources, config, configFile, phase, userCooldowns,
                    userMessageCounters, timers, runs, dispatched, inWindow, unblocked >>

UnloadModule(name) ==
    /\ modules' = unloadModule(modules, name).modules
    /\ evt' = [Plain("unloadModule") EXCEPT
                  !.name = name,
                  !.callbacks = unloadModule(modules, name).callbacks]
    /\ UNCHANGED << moduleSources, config, configFile, phase, userCooldowns,
                    userMessageCounters, timers, runs, dispatched, inWindow, unblocked >>

\* directories that exist on disk besides the local module directory
Directories == {"extra"}

\* bot.addModuleSource
addModuleSource(directory) ==
    /\ Len(moduleSources) < MaxSources
    /\ moduleSources' = IF directory \in Directories
                        THEN Append(moduleSources, directory)
                        ELSE moduleSources
    /\ evt' = [Plain("addModuleSource") EXCEPT !.name = directory]
    /\ UNCHANGED << modules, config, configFile, phase, userCooldowns,
                    userMessageCounters, timers, runs, dispatched, inWindow, unblocked >>

\* ------------------------------------------------------------ specifications
\* config.json as loadConfig completes it from configSchema (lines 51-84),
\* with the modules to load and the rate-limit tunables given
Config(active, intervalMs, messageCount, blockDurationMs) ==
    [owner |-> "", commandAliases |-> EmptyMap, groups |-> EmptyMap,
     commandPermissions |-> EmptyMap,
     serverPermissions |-> [g \in Guilds |-> EmptyMap],
     blockedUsers |-> <<>>, activeModules |-> active,
     intervalMs |-> intervalMs, messageCount |-> messageCount,
     blockDurationMs |-> blockDurationMs]

\* the state once bot.load and bot.onConnect have run on cfg
Started(cfg, srcs) ==
    /\ config = cfg
    /\ configFile = cfg
    /\ moduleSources = srcs
    /\ modules = LoadAll(<<>>, srcs, cfg.activeModules, 1)
    /\ phase = "running"
    /\ userCooldowns = {}
    /\ userMessageCounters = [u \in Users |-> 0]
    /\ timers = <<>>
    /\ runs = <<>>
    /\ evt = Plain("init")
    /\ dispatched = [u \in Users |-> Zeros(cfg.intervalMs)]
    /\ inWindow = [u \in Users |-> 0]
    /\ unblocked = [u \in Users |-> FALSE]

\* The rate limiter under every setting of its tunables: the messages of one
\* user and of another bot, run through at once or suspended in a module's
\* middleware, against the two kinds of timer.
RateMessages ==
    {Msg("u1", FALSE, NoGuild, {}, kind, "ping", 0) : kind \in {"cmd", "text"}}
    \cup {Msg("bot", TRUE, NoGuild, {}, "cmd", "ping", 0)}

InitRate ==
    \E active \in {<<"a", "b">>},
       intervalMs \in 1..MaxInterval,
       messageCount \in 1..MaxThreshold,
       blockDurationMs \in 1..MaxBlock :
        Started(Config(active, intervalMs, messageCount, blockDurationMs), <<"local">>)

NextRate ==
    \/ \E msg \in RateMessages, wait \in BOOLEAN : onMessage(msg, wait)
    \/ \E k \in 1..MaxRuns, wait \in BOOLEAN : ResumeRun(k, wait)
    \/ \E k \in 1..MaxRuns : DropRun(k)
    \/ \E i \in 1..Len(timers) : WindowTimeout(i)
    \/ \E i \in 1..Len(timers) : UnblockTimeout(i)
    \/ Tick

SpecRate == InitRate /\ [][NextRate]_vars

\* The same with saveConfig and a restart of the bot at any moment.
RestartMessages == {Msg("u1", FALSE, NoGuild, {}, "cmd", "ping", 0)}

InitRestart ==
    \E intervalMs \in 1..MaxInterval, blockDurationMs \in 1..MaxBlock :
        Started(Config(<<"a", "b">>, intervalMs, 2, blockDurationMs), <<"local">>)

NextRestart ==
    \/ \E msg \in RestartMessages, wait \in BOOLEAN : onMessage(msg, wait)
    \/ \E k \in 1..MaxRuns, wait \in BOOLEAN : ResumeRun(k, wait)
    \/ \E k \in 1..MaxRuns : DropRun(k)
    \/ \E i \in 1..Len(timers) : WindowTimeout(i)
    \/ \E i \in 1..Len(timers) : UnblockTimeout(i)
    \/ Tick
    \/ saveConfig
    \/ load
    \/ loadConfigDone
    \/ onConnect

SpecRestart == InitRestart /\ [][NextRestart]_vars

\* The sender of the messages is the owner, a member of the group "mods", or
\* neither.
Standings == {"owner", "mod", "none"}

DispatchConfig(active, aliases, permissions, roles, standing) ==
    [Config(active, 1, 2, 1) EXCEPT
        !.owner = IF standing = "owner" THEN "u1" ELSE "u2",
        !.groups = [g \in {"mods"} |-> IF standing = "mod" THEN {"u1"} ELSE {"u2"}],
        !.commandAliases = aliases,
        !.commandPermissions = permissions,
        !.serverPermissions = [g \in Guilds |-> roles]]

AliasConfigs == {EmptyMap, [t \in {"p"} |-> "kick"], [t \in {"k"} |-> "p"]}

\* The registry and the resolver: modules are loaded and unloaded and module
\* sources added, under each alias configuration, while a user sends commands.
Messages == {Msg("u1", FALSE, NoGuild, {}, "cmd", t, MaxArgs) : t \in Tokens}

Init ==
    \E aliases \in AliasConfigs :
        Started(DispatchConfig(<<"a", "b">>, aliases, EmptyMap, EmptyMap, "none"),
                <<"local">>)

Next ==
    \/ \E name \in ModuleNames : LoadModule(name)
    \/ \E name \in ModuleNames : UnloadModule(name)
    \/ \E directory \in Directories \cup {"nowhere"} : addModuleSource(directory)
    \/ \E msg \in Messages : onMessage(msg, FALSE)
    \/ \E i \in 1..Len(timers) : WindowTimeout(i)
    \/ \E i \in 1..Len(timers) : UnblockTimeout(i)
    \/ Tick

Spec == Init /\ [][Next]_vars

\* The permission check and the dispatcher: commands typed by name and by
\* alias, from a server and outside one, with enough arguments and too few,
\* under each configuration of overrides and each standing of the sender.
\* No aliases are configured here: Spec runs the resolver under AliasConfigs.
PermissionConfigs == {EmptyMap, [t \in {"ping"} |-> "mods"]}

RoleConfigs == {EmptyMap, [t \in {"kick"} |-> "r1"]}

Contexts == {[guild |-> NoGuild, roles |-> {}]}
            \cup {[guild |-> g, roles |-> r] : g \in Guilds, r \in SUBSET Roles}

DispatchMessages ==
    {Msg("u1", FALSE, c.guild, c.roles, "cmd", t, n) :
        c \in Contexts, t \in Tokens, n \in 0..MaxArgs}
    \cup {Msg("u1", FALSE, NoGuild, {}, "bare", "", 0)}

InitDispatch ==
    \E active \in {<<"a", "b">>, <<"b">>},
       aliases \in {EmptyMap},
       permissions \in PermissionConfigs,
       roles \in RoleConfigs, standing \in Standings :
        Started(DispatchConfig(active, aliases, permissions, roles, standing), <<"local">>)

NextDispatch ==
    \/ \E msg \in DispatchMessages : onMessage(msg, FALSE)
    \/ \E i \in 1..Len(timers) : WindowTimeout(i)
    \/ \E i \in 1..Len(timers) : UnblockTimeout(i)
    \/ Tick

SpecDispatch == InitDispatch /\ [][NextDispatch]_vars

\* Failures in the dispatcher: a command whose execute hook raises, one whose
\* promise is rejected, and commands from a server the bot joined after
\* onConnect ran, for which config.serverPermissions has no entry.
LateGuilds == {"g2"}

FaultTokens == {"boom", "pg", "kick"}

FaultMessages ==
    {Msg("u1", FALSE, NoGuild, {}, "cmd", t, MaxArgs) : t \in FaultTokens}
    \cup {Msg("u1", FALSE, g, r, "cmd", t, MaxArgs) :
              g \in Guilds \cup LateGuilds, r \in SUBSET Roles, t \in FaultTokens}

InitFaults ==
    \E roles \in RoleConfigs, standing \in Standings :
        Started(DispatchConfig(<<"e", "b">>, EmptyMap, EmptyMap, roles, standing),
                <<"local">>)

NextFaults ==
    \/ \E msg \in FaultMessages : onMessage(msg, FALSE)
    \/ \E i \in 1..Len(timers) : WindowTimeout(i)
    \/ \E i \in 1..Len(timers) : UnblockTimeout(i)
    \/ Tick

SpecFaults == InitFaults /\ [][NextFaults]_vars

\* The pipeline while modules that contribute middleware are loaded and
\* unloaded: a run goes through at once or is suspended in the middleware of
\* module b, and the registry changes before it resumes.
PipelineModules == {"b", "e"}

PipelineMessages ==
    {Msg("u1", FALSE, NoGuild, {}, kind, "kick", MaxArgs) : kind \in {"cmd", "text"}}
    \cup {Msg("bot", TRUE, NoGuild, {}, "cmd", "kick", MaxArgs)}

InitPipeline ==
    \E active \in {<<"b", "e">>, <<"e", "b">>} :
        Started(DispatchConfig(active, EmptyMap, EmptyMap, EmptyMap, "mod"), <<"local">>)

NextPipeline ==
    \/ \E name \in PipelineModules : LoadModule(name)
    \/ \E name \in PipelineModules : UnloadModule(name)
    \/ \E msg \in PipelineMessages, wait \in BOOLEAN : onMessage(msg, wait)
    \/ \E k \in 1..MaxRuns, wait \in BOOLEAN : ResumeRun(k, wait)
    \/ \E k \in 1..MaxRuns : DropRun(k)
    \/ \E i \in 1..Len(timers) : WindowTimeout(i)
    \/ \E i \in 1..Len(timers) : UnblockTimeout(i)
    \/ Tick

SpecPipeline == InitPipeline /\ [][NextPipeline]_vars

\* ==================================================================== claims
RECURSIVE Sum(_)
Sum(s) == IF s = <<>> THEN 0 ELSE Head(s) + Sum(Tail(s))

RateLimitNotices(e) == Cardinality({i \in 1..Len(e.notices) : e.notices[i] = "ratelimit"})

\* C1: a message that reaches the rate limiter and leaves the user's
\* messageCount below the threshold is forwarded to the dispatcher; the message
\* that makes messageCount equal the threshold is not forwarded, sends exactly
\* one rate-limit notice and puts the user in the blocked-user set.
C1_ForwardBelowBlockAtThreshold ==
    Reached(evt, "rateLimiter") =>
        LET u == evt.msg.author
            count == userMessageCounters[u]
        IN /\ count < config.messageCount =>
                  /\ Reached(evt, "commandDispatcher")
                  /\ RateLimitNotices(evt) = 0
           /\ count = config.messageCount =>
                  /\ ~Reached(evt, "commandDispatcher")
                  /\ RateLimitNotices(evt) = 1
                  /\ u \in RangeOf(config.blockedUsers)

\* the threshold-th message of a window with earlier, forwarded messages
C1_Witness ==
    /\ Reached(evt, "rateLimiter")
    /\ config.messageCount >= 2
    /\ userMessageCounters[evt.msg.author] = config.messageCount
    /\ evt.msg.author \in RangeOf(config.blockedUsers)
    /\ evt.notices = <<"ratelimit">>

\* C2 as stated: in any time span of length intervalMs, at most messageCount
\* messages of a user reach the dispatcher before the user is blocked.
C2_AnySpanAtMostThreshold ==
    \A u \in Users : Sum(dispatched[u]) <= config.messageCount

\* C2 amended: within one counting window of a user (from the message that
\* opens it until its timer fires) fewer than messageCount messages of the
\* user reach the dispatcher; a span of length intervalMs, which can straddle
\* two windows, holds at most 2 * (messageCount - 1).
C2_PerWindowBelowThreshold ==
    \A u \in Users :
        /\ inWindow[u] < config.messageCount
        /\ Sum(dispatched[u]) <= 2 * (config.messageCount - 1)

\* a window in which messageCount - 1 messages were forwarded
C2_Witness ==
    /\ Reached(evt, "commandDispatcher")
    /\ config.messageCount >= 3
    /\ inWindow[evt.msg.author] = config.messageCount - 1
    /\ Sum(dispatched[evt.msg.author]) > inWindow[evt.msg.author]

\* C3: no message of a user who is in the blocked-user set when the message
\* comes to the blocked-user filter reaches the command detection, the rate
\* limiter or the dispatcher, whatever happened while the run was suspended.
C3_BlockedNeverPastFilter ==
    [][(Reached(evt', "commandDetector") \/ Reached(evt', "rateLimiter")
            \/ Reached(evt', "commandDispatcher"))
        => evt'.msg.author \notin RangeOf(config.blockedUsers)]_vars

\* a run that was suspended in a module's middleware resumes with its author
\* blocked in the meantime and ends in the blocked-user filter
C3_Witness ==
    /\ evt.kind = "msg"
    /\ evt.trace = <<"blockHandler">>
    /\ evt.stop = "drop"
    /\ evt.msg.author \in RangeOf(config.blockedUsers)

\* C4: the first command of a user after the unblock timer ended the user's
\* block starts a fresh window: messageCount is 1 after it.
C4_FreshWindowAfterUnblock ==
    (evt.kind = "msg" /\ evt.afterUnblock) => userMessageCounters[evt.msg.author] = 1

\* C5: once the unblock timer of a user's block has fired, the user is absent
\* from the blocked-user set the filter reads until the rate limiter blocks the
\* user again, also when the bot was restarted while the block was pending.
C5_UnblockedStaysAbsent ==
    \A u \in Users : unblocked[u] => u \notin RangeOf(config.blockedUsers)

\* the commands of every loaded module, in module order
RECURSIVE AllCommands(_, _)
AllCommands(mods, i) ==
    IF i > Len(mods) THEN <<>> ELSE mods[i].commands \o AllCommands(mods, i + 1)

\* the first of the commands with the name, absent when there is none
FirstNamed(commands, name) ==
    IF \E i \in 1..Len(commands) : commands[i].name = name
    THEN commands[CHOOSE i \in 1..Len(commands) :
                      /\ commands[i].name = name
                      /\ \A j \in 1..(i - 1) : commands[j].name # name]
    ELSE NoCmd

Resolve(token) == getCommandNamed(modules, config, token)

\* the names and aliases of the commands of a module
NamesOf(m) ==
    {m.commands[i].name : i \in 1..Len(m.commands)}
    \cup UNION {RangeOf(m.commands[i].aliases) : i \in 1..Len(m.commands)}

\* C6: loadModule of a name that is already loaded fails with one error and
\* leaves the registry as it was: every token resolves to the same command as
\* before the failed load.
C6_LoadTwiceFailsAndKeepsRegistry ==
    [][(evt'.kind = "loadModule" /\ IsLoaded(modules, evt'.name))
        => /\ evt'.callbacks = <<"alreadyloaded">>
           /\ modules' = modules
           /\ \A t \in Tokens :
                  getCommandNamed(modules', config', t) = getCommandNamed(modules, config, t)]_vars

\* a failed second load of a module whose command still resolves
C6_Witness ==
    /\ evt.kind = "loadModule"
    /\ evt.callbacks = <<"alreadyloaded">>
    /\ IsLoaded(modules, evt.name)
    /\ \E t \in NamesOf(modules[IndexOfModule(modules, evt.name)]) :
           Resolve(t) # NoCmd /\ Resolve(t).mod = evt.name

\* C7 as stated: after unloadModule(m) succeeded, every name and alias of a
\* command of m resolves to absent.
C7_UnloadedNamesResolveAbsent ==
    [][(evt'.kind = "unloadModule" /\ IsLoaded(modules, evt'.name))
        => \A t \in NamesOf(modules[IndexOfModule(modules, evt'.name)]) :
               getCommandNamed(modules', config', t) = NoCmd]_vars

\* C7 amended: after unloadModule(m) succeeded, no name or alias of a command
\* of m resolves to a command of m; it resolves to absent unless the configured
\* aliases have an entry for it or a module still loaded declares it as a
\* name or alias.
C7_UnloadedCommandsGone ==
    [][(evt'.kind = "unloadModule" /\ IsLoaded(modules, evt'.name))
        => LET m == modules[IndexOfModule(modules, evt'.name)]
           IN /\ evt'.callbacks = <<"ok">>
              /\ \A t \in NamesOf(m) :
                    LET found == getCommandNamed(modules', config', t)
                    IN /\ \A i \in 1..Len(m.commands) : found # m.commands[i]
                       /\ found # NoCmd =>
                              \E k \in 1..Len(modules') :
                                  found \in RangeOf(modules'[k].commands)
                       /\ (~Has(config.commandAliases, t)
                           /\ \A k \in 1..Len(modules') : t \notin NamesOf(modules'[k]))
                          => found = NoCmd]_vars

\* a module was unloaded whose command name another loaded module declares too
C7_Witness ==
    /\ evt.kind = "unloadModule"
    /\ evt.callbacks = <<"ok">>
    /\ ~IsLoaded(modules, evt.name)
    /\ evt.name = "a"
    /\ Resolve("ping") # NoCmd
    /\ Resolve("p") # NoCmd

\* C8: a token with an entry in the configured aliases resolves to the first
\* command, in module order, whose name is the entry's target, whatever the
\* modules declare as aliases for the token or for the target.
C8_ConfiguredAliasWins ==
    \A t \in DOMAIN config.commandAliases :
        Resolve(t) = FirstNamed(AllCommands(modules, 1), config.commandAliases[t])

\* a command was typed by a token that the configuration maps to one command
\* and a loaded module to another, or whose target is a module's alias
C8_Witness ==
    /\ Reached(evt, "commandDispatcher")
    /\ Has(config.commandAliases, evt.msg.command)
    /\ \E k \in 1..Len(modules) :
           \/ /\ Has(modules[k].defaultAliases, evt.msg.command)
              /\ modules[k].defaultAliases[evt.msg.command]
                     # config.commandAliases[evt.msg.command]
              /\ evt.cmd.name = config.commandAliases[evt.msg.command]
           \/ /\ Has(modules[k].defaultAliases, config.commandAliases[evt.msg.command])
              /\ evt.cmd = NoCmd

Members == {[present |-> b, roles |-> r] : b \in BOOLEAN, r \in SUBSET Roles}

\* C9: hasPermission is true exactly when the user is the configured owner, or
\* the group is "all", or the group is a configured group that contains the
\* user, or a non-empty role override is given and the member holds that role.
C9_PermissionCases ==
    \A member \in Members, user \in Users, group \in Groups \cup {"admins"},
       role \in Roles \cup {NoOverride} :
        hasPermission(config, member, user, group, role)
            <=> \/ user = config.owner
                \/ group = "all"
                \/ group \in DOMAIN config.groups /\ user \in config.groups[group]
                \/ role # NoOverride /\ member.present /\ role \in member.roles

\* a command was executed for a sender who is not the owner and not in the
\* required group, on the strength of the role override of the server
C9_Witness ==
    /\ evt.kind = "msg"
    /\ evt.executed
    /\ evt.msg.author # config.owner
    /\ PermissionLevel(config, evt.msg, evt.cmd) = "mods"
    /\ evt.msg.author \notin config.groups["mods"]
    /\ RoleOverride(config, evt.msg) \in evt.msg.roles

\* the group the claim requires: the override configured for the command's
\* name, else the permissionLevel the command declares
RequiredGroup(cfg, cmd) ==
    IF Has(cfg.commandPermissions, cmd.name)
    THEN cfg.commandPermissions[cmd.name]
    ELSE cmd.permissionLevel

\* C10: a command is executed only for a sender whom hasPermission allows for
\* the required group of the command, typed by name or by alias; a denial
\* sends the permission notice and does not execute.
C10_ExecutedOnlyIfAuthorized ==
    /\ (evt.kind = "msg" /\ evt.executed) =>
           hasPermission(config, Member(evt.msg), evt.msg.author,
                         RequiredGroup(config, evt.cmd), RoleOverride(config, evt.msg))
    /\ (evt.kind = "msg" /\ "denied" \in RangeOf(evt.notices)) => ~evt.executed

\* C11: a resolved command is executed only if at least as many arguments
\* were typed as it has argument names not ending in '?'; with fewer, a usage
\* error is sent and the command is not executed. With enough arguments the
\* permitted sender's command is executed, whether optional arguments are
\* absent or more arguments were typed than the command names.
C11_ExecutedOnlyWithRequiredArgs ==
    (Reached(evt, "commandDispatcher") /\ evt.cmd # NoCmd) =>
        /\ evt.executed => evt.msg.nargs >= RequiredArgs(evt.cmd)
        /\ evt.msg.nargs < RequiredArgs(evt.cmd) =>
               /\ evt.notices = <<"usage">>
               /\ ~evt.executed
        /\ (/\ evt.msg.nargs >= RequiredArgs(evt.cmd)
            /\ hasPermission(config, Member(evt.msg), evt.msg.author,
                             PermissionLevel(config, evt.msg, evt.cmd),
                             RoleOverride(config, evt.msg)))
               => /\ evt.executed
                  /\ "usage" \notin RangeOf(evt.notices)

\* kick, with a required and an optional argument name, was typed without
\* arguments and answered with the usage error
C11_Witness ==
    /\ Reached(evt, "commandDispatcher")
    /\ evt.cmd.name = "kick"
    /\ evt.cmd.argumentNames = <<"user", "why?">>
    /\ evt.msg.nargs = 0
    /\ evt.notices = <<"usage">>
    /\ ~evt.executed

\* C12: whenever the execute hook of an invoked command fails, by raising or
\* by a rejected promise, an error notice is sent and no exception leaves the
\* dispatcher.
C12_ExecuteFailureReported ==
    (evt.kind = "msg" /\ evt.executed /\ evt.cmd.exec \in {"reject", "throw"}) =>
        /\ "error" \in RangeOf(evt.notices)
        /\ ~evt.threw

CoreOrder == <<"blockHandler", "commandDetector", "rateLimiter", "commandDispatcher">>

\* the chain of a message for a registry: the author filter, the middleware of
\* every module by module position and position in the module, the four core stages
DeclaredOrder(mods) ==
    LET Pairs == UNION {{<<i, j>> : j \in 1..Len(mods[i].middleware)} : i \in 1..Len(mods)}
        Rank(p) == 1 + Cardinality({q \in Pairs : q[1] < p[1]
                                                   \/ (q[1] = p[1] /\ q[2] < p[2])})
        n == Cardinality(Pairs)
    IN [k \in 1..(n + 5) |->
           IF k = 1 THEN Core("checkMessageAuthor")
           ELSE IF k <= n + 1
           THEN LET p == CHOOSE q \in Pairs : Rank(q) = k - 1
                IN Stage("middleware", mods[p[1]].name, mods[p[1]].middleware[p[2]])
           ELSE Core(CoreOrder[k - n - 1])]

IsSegment(st, full, from) ==
    /\ from + Len(st) - 1 <= Len(full)
    /\ \A k \in 1..Len(st) : st[k] = full[from + k - 1]

\* every stage but the last called next(), and the last did not unless it is
\* the dispatcher
RanUntilShortCircuit(st, full, from, cfg, counters, msg) ==
    /\ \A k \in 1..(Len(st) - 1) : StageResult(cfg, counters, st[k], msg, FALSE) = "next"
    /\ from + Len(st) - 1 < Len(full) =>
           \E wait \in BOOLEAN : StageResult(cfg, counters, st[Len(st)], msg, wait) # "next"

\* C13: the stages of a message run in the order author filter, the middleware
\* of every loaded module in module-load order, blocked-user filter, command
\* detection, rate limiter, dispatcher, and stop at the first stage that
\* returns without calling next; a run that was suspended goes on where it
\* stopped in the same chain.
C13_StagesInDeclaredOrder ==
    [][evt'.kind = "msg" =>
          /\ evt'.stages # <<>>
          /\ IF evt'.stages[1].fn = "checkMessageAuthor"
             THEN /\ IsSegment(evt'.stages, DeclaredOrder(modules), 1)
                  /\ RanUntilShortCircuit(evt'.stages, DeclaredOrder(modules), 1,
                                          config, userMessageCounters, evt'.msg)
             ELSE \E k \in 1..Len(runs) :
                      /\ runs[k].msg = evt'.msg
                      /\ IsSegment(evt'.stages, runs[k].mw, runs[k].at + 1)
                      /\ RanUntilShortCircuit(evt'.stages, runs[k].mw, runs[k].at + 1,
                                              config, userMessageCounters, evt'.msg)]_vars

\* a command went through the middleware of e and of b, loaded in this order,
\* and through every core stage
C13_Witness ==
    /\ evt.kind = "msg"
    /\ Len(evt.stages) = 7
    /\ evt.stages[2] = Stage("middleware", "e", "sync")
    /\ evt.stages[3] = Stage("middleware", "b", "async")
    /\ evt.stages[7].fn = "commandDispatcher"

\* C14: no user is at once in the blocked-user set and in the set of users
\* with an open counting window.
C14_BlockedExcludesCooldown ==
    \A u \in Users : ~(u \in RangeOf(config.blockedUsers) /\ u \in userCooldowns)

\* the target of the token in the first module, in load order, whose aliases
\* contain the token; the token itself when no module has it as an alias
RECURSIVE FirstAlias(_, _, _)
FirstAlias(mods, i, token) ==
    IF i > Len(mods) THEN token
    ELSE IF Has(mods[i].defaultAliases, token) THEN mods[i].defaultAliases[token]
    ELSE FirstAlias(mods, i + 1, token)

\* C15: a token without a configured alias resolves to the command, in the
\* first module in load order that has one, named by the target of the token in
\* the first module whose aliases contain it (the target is not looked up
\* again in the aliases of later modules), or by the token itself.
C15_FirstModuleAliasWins ==
    \A t \in Tokens :
        ~Has(config.commandAliases, t) =>
            Resolve(t) = FirstNamed(AllCommands(modules, 1), FirstAlias(modules, 1, t))

\* C16: for every message that comes to the rate limiter, the open-window
\* check, the increment and the comparison with the threshold are one step
\* together with the blocked-user check of the same message: the counter goes
\* up by exactly one, the message is forwarded exactly when the counter it
\* leaves is below the threshold, so that every forwarded message of a window
\* saw a count of its own, and the sender was not blocked when the step began.
C16_RateLimiterStepAtomic ==
    [][Reached(evt', "rateLimiter") =>
          LET u == evt'.msg.author
          IN /\ Reached(evt', "blockHandler")
             /\ u \notin RangeOf(config.blockedUsers)
             /\ u \in userCooldowns'
             /\ userMessageCounters'[u] = userMessageCounters[u] + 1
             /\ Reached(evt', "commandDispatcher")
                    <=> userMessageCounters[u] + 1 < config.messageCount
             /\ Reached(evt', "commandDispatcher")
                    => inWindow'[u] = userMessageCounters'[u]]_vars

\* a run that was suspended in a module's middleware resumes, comes to the
\* rate limiter when other messages of its sender were counted in the open
\* window, and is the one that reaches the threshold
C16_Witness ==
    /\ evt.kind = "msg"
    /\ evt.stages # <<>>
    /\ evt.stages[1].fn = "blockHandler"
    /\ Reached(evt, "rateLimiter")
    /\ config.messageCount >= 3
    /\ userMessageCounters[evt.msg.author] = config.messageCount
    /\ evt.notices = <<"ratelimit">>

\* C17: the chain of a run is the one built from the registry when the run
\* started: a run that is suspended keeps it, loadModule and unloadModule leave
\* the suspended runs as they are, and a run that resumes goes on in its own
\* chain, whatever modules are loaded by then.
C17_ChainFixedAtRunStart ==
    [][/\ (evt'.kind = "msg" /\ evt'.stages[1].fn = "checkMessageAuthor"
            /\ evt'.stop = "suspend")
           => runs'[Len(runs')].mw = DeclaredOrder(modules)
       /\ evt'.kind \in {"loadModule", "unloadModule"} => runs' = runs
       /\ (evt'.kind = "msg" /\ evt'.stages[1].fn # "checkMessageAuthor")
           => \E k \in 1..Len(runs) :
                  /\ runs[k].msg = evt'.msg
                  /\ IsSegment(evt'.stages, runs[k].mw, runs[k].at + 1)
                  /\ evt'.stop = "suspend" => runs'[Len(runs')].mw = runs[k].mw
                  /\ evt'.stop \in {"done", "throw"}
                         => runs[k].at + Len(evt'.stages) = Len(runs[k].mw)]_vars

\* a run resumed and went through the middleware of a module that was
\* unloaded while the run was suspended
C17_Witness ==
    /\ evt.kind = "msg"
    /\ evt.stages # <<>>
    /\ evt.stages[1].fn # "checkMessageAuthor"
    /\ \E k \in 1..Len(evt.stages) :
           /\ evt.stages[k].fn = "middleware"
           /\ ~IsLoaded(modules, evt.stages[k].mod)
    /\ Reached(evt, "commandDispatcher")

\* C18: for a command from a server, the role override is the one configured
\* for that server and the command, and empty when none is configured, also
\* when the configuration has no role-override map for the server: the
\* dispatcher does not fail, and the command is executed exactly when
\* hasPermission allows the sender with that override.
C18_RoleOverrideOfServer ==
    (/\ Reached(evt, "commandDispatcher")
     /\ evt.cmd # NoCmd
     /\ evt.msg.guild # NoGuild
     /\ evt.msg.nargs >= RequiredArgs(evt.cmd))
        => /\ evt.cmd.exec # "throw" => ~evt.threw
           /\ evt.executed
                  <=> hasPermission(config, Member(evt.msg), evt.msg.author,
                                    PermissionLevel(config, evt.msg, evt.cmd),
                                    RoleOverride(config, evt.msg))

\* C19: every call of loadModule invokes its callback exactly once, whether
\* the module is already loaded, found in no source, found in one or several
\* sources, or fails to import.
C19_CallbackExactlyOnce ==
    evt.kind = "loadModule" => Len(evt.callbacks) = 1

\* C20: for every message that starts with the prefix the command detection
\* does not fail and calls next, so that the message comes to the rate
\* limiter, also when nothing but white space follows the prefix; a message
\* that does not start with the prefix is dropped by the command detection.
C20_DetectorNeverFails ==
    Reached(evt, "commandDetector") =>
        IF evt.msg.kind = "text"
        THEN /\ ~Reached(evt, "rateLimiter")
             /\ evt.stop = "drop"
        ELSE /\ Reached(evt, "rateLimiter")
             /\ evt.trace[Len(evt.trace)] # "commandDetector"

\* C21: a message that does not come to the rate limiter (of a bot, of a
\* blocked user, without the prefix, or held in a module's middleware) leaves
\* the open windows, every messageCount, the blocked-user set and the pending
\* timers as they were; only messages with the prefix of a user who is no bot
\* and not blocked are counted, and such a message is counted whether or not
\* it names a known command.
C21_DroppedMessagesNotCounted ==
    [][evt'.kind = "msg" =>
          LET u == evt'.msg.author
          IN /\ ~Reached(evt', "rateLimiter") =>
                    /\ userCooldowns' = userCooldowns
                    /\ userMessageCounters' = userMessageCounters
                    /\ config'.blockedUsers = config.blockedUsers
                    /\ timers' = timers
             /\ Reached(evt', "rateLimiter") =>
                    /\ evt'.msg.kind = "cmd"
                    /\ ~evt'.msg.bot
                    /\ u \notin RangeOf(config.blockedUsers)
             /\ (/\ evt'.msg.kind = "cmd"
                 /\ ~evt'.msg.bot
                 /\ u \notin RangeOf(config.blockedUsers)
                 /\ evt'.stop # "suspend")
                    => /\ Reached(evt', "rateLimiter")
                       /\ userMessageCounters'[u] = userMessageCounters[u] + 1
                       /\ u \in userCooldowns']_vars

\* a message without the prefix was dropped by the command detection while
\* its sender had an open window one short of the threshold: it was not
\* counted and the sender is not blocked
C21_Witness ==
    /\ evt.kind = "msg"
    /\ evt.msg.kind = "text"
    /\ evt.trace[Len(evt.trace)] = "commandDetector"
    /\ evt.stop = "drop"
    /\ evt.msg.author \in userCooldowns
    /\ userMessageCounters[evt.msg.author] = config.messageCount - 1
    /\ config.blockedUsers = <<>>

====
